---- MODULE Spec2Model ----
(***************************************************************************)
(* Model of src/src/VideoPlayer.tsx: the VideoPlayer component, its React  *)
(* state (the "session state"), the <video> element it drives through      *)
(* videoRef (the "native primitive") and every handler bound in its JSX.   *)
(*                                                                         *)
(* Units.  The component works with JavaScript numbers; the model keeps    *)
(* them as integers:                                                       *)
(*   - volume and playbackRate in hundredths (the sliders' step is 0.01),  *)
(*     so 1.0 is 100, 0.25 is 25 and 2.0 is 200;                           *)
(*   - times in time units of which every media duration is a multiple of  *)
(*     20, so that duration * percent / 100 is an integer for every        *)
(*     percent that is a multiple of 5 (the quick-jump buttons are 5, 10   *)
(*     and 15).                                                            *)
(* Every handler runs to completion and React re-renders before the next   *)
(* event is handled, so one action is one handler together with the        *)
(* effect it triggers.                                                     *)
(***************************************************************************)
EXTENDS Integers, FiniteSets, Sequences, TLC

VARIABLES
    \* ---- session state: the useState cells of the component ----
    isPlaying, currentTime, duration, volume, isMuted, isFullscreen,
    videoFile, playbackRate,
    \* ---- the native primitive: the <video> element behind videoRef ----
    video,              \* its properties: paused, currentTime, duration, volume, muted, playbackRate
    fullscreenElement,  \* TRUE while the document shows the video fullscreen
    fullscreenApi,      \* the platform exposes requestFullscreen / exitFullscreen
    metadataPending,    \* a loadedmetadata notification is queued
    \* ---- observation of the last handler that ran ----
    lastOp,             \* which handler ran last
    arg,                \* the value the user asked for in that handler
    cmds,               \* the commands that handler issued to the native primitive
    muteBefore          \* what held before that handler, when it was handleMute

session == <<isPlaying, currentTime, duration, volume, isMuted, isFullscreen,
             videoFile, playbackRate>>
native == <<video, fullscreenElement>>
vars == <<isPlaying, currentTime, duration, volume, isMuted, isFullscreen,
          videoFile, playbackRate, video, fullscreenElement, fullscreenApi,
          metadataPending, lastOp, arg, cmds, muteBefore>>

----------------------------------------------------------------------------
\* Bounds and input samples

\* media durations are 20, 40, ..., 20 * MaxDurationSteps time units
MaxDurationSteps == 1
Durations == {20 * k : k \in 1..MaxDurationSteps}

NoFile == "undefined"
Files == {"blob:clip"}
NoArg == <<>>

\* what the user drags the sliders towards, inside and outside their ranges
VolumeRequests == {0, 50, 100, 150}
RateRequests == {10, 25, 150, 200, 300}
SeekRequests == {-5, 0, 7, 20, 45}
\* what the user types into the manual percent field (whole percents that are
\* multiples of 5, and text that is no number)
ManualEntries == {"", "0", "-100", "100"}

----------------------------------------------------------------------------
\* The controls rendered by the JSX

\* RangeValue with the defect of a control that reports whatever is asked
RangeValueUnbounded(req, min, max) == req

\* <input type="range" min max>: the value a range control reports is kept
\* inside [min, max]
RangeValue(req, min, max) ==
    IF req < min THEN min ELSE IF req > max THEN max ELSE req

VolumeMin == 0
VolumeMax == 100
RateMin == 25
RateMax == 200
ResetRate == 100
QuickPercents == {5, 10, 15}

\* FileInputRendered with the defect of a file input rendered at all times
FileInputAlwaysRendered == TRUE

\* the file input is rendered only while no file is chosen
FileInputRendered == videoFile = NoFile

\* the <video> element is rendered unconditionally, so videoRef.current is
\* the element whenever a handler runs
VideoPresent == TRUE

Snapshot == <<isMuted, video.muted, volume>>
NoSnapshot == <<>>

----------------------------------------------------------------------------
\* The native primitive's own behaviour (HTMLMediaElement)

\* playback has reached the end of the media
AtEnd(v) == v.duration # 0 /\ v.currentTime = v.duration

\* video.play(): playback starts, from the beginning when it had ended
NativePlay(v) ==
    [v EXCEPT !.paused = FALSE, !.currentTime = IF AtEnd(v) THEN 0 ELSE @]

\* video.pause()
NativePause(v) == [v EXCEPT !.paused = TRUE]

\* the src attribute changes: the element loads the new resource, paused, at
\* position 0, its duration unknown until the metadata arrives
NativeLoad(v) == [v EXCEPT !.paused = TRUE, !.currentTime = 0, !.duration = 0]

----------------------------------------------------------------------------
\* What the last handler did

Observe(op, a, c) ==
    /\ lastOp' = op
    /\ arg' = a
    /\ cmds' = c
    /\ muteBefore' = IF op = "toggleMute" THEN Snapshot ELSE NoSnapshot

----------------------------------------------------------------------------
Init ==
    /\ isPlaying = FALSE
    /\ currentTime = 0
    /\ duration = 0
    /\ volume = 100
    /\ isMuted = FALSE
    /\ isFullscreen = FALSE
    /\ videoFile = NoFile
    /\ playbackRate = 100
    /\ video = [paused |-> TRUE, currentTime |-> 0, duration |-> 0,
                volume |-> 100, muted |-> FALSE, playbackRate |-> 100]
    /\ fullscreenElement = FALSE
    /\ fullscreenApi \in BOOLEAN
    /\ metadataPending = FALSE
    /\ lastOp = "mount"
    /\ arg = NoArg
    /\ cmds = {}
    /\ muteBefore = NoSnapshot

----------------------------------------------------------------------------
\* Handlers

\* handlePlayPause: the play/pause button and a click on the video
handlePlayPause ==
    /\ IF ~VideoPresent
       THEN /\ UNCHANGED <<video, isPlaying>>
            /\ Observe("togglePlayPause", NoArg, {})
       ELSE IF video.paused
       THEN /\ video' = NativePlay(video)
            /\ isPlaying' = TRUE
            /\ Observe("togglePlayPause", NoArg, {"play"})
       ELSE /\ video' = NativePause(video)
            /\ isPlaying' = FALSE
            /\ Observe("togglePlayPause", NoArg, {"pause"})
    /\ UNCHANGED <<currentTime, duration, volume, isMuted, isFullscreen,
                   videoFile, playbackRate, fullscreenElement, fullscreenApi,
                   metadataPending>>

\* handleTimeUpdate with the defect of a progress handler that also mirrors
\* the paused flag into isPlaying
handleTimeUpdateMirroringPaused ==
    /\ video.duration # 0
    /\ currentTime' = video.currentTime
    /\ isPlaying' = ~video.paused
    /\ Observe("timeupdate", NoArg, {})
    /\ UNCHANGED <<duration, volume, isMuted, isFullscreen,
                   videoFile, playbackRate, video, fullscreenElement,
                   fullscreenApi, metadataPending>>

\* handleTimeUpdate: the progress notification of the native primitive
handleTimeUpdate ==
    /\ video.duration # 0
    /\ currentTime' = IF VideoPresent THEN video.currentTime ELSE currentTime
    /\ Observe("timeupdate", NoArg, {})
    /\ UNCHANGED <<isPlaying, duration, volume, isMuted, isFullscreen,
                   videoFile, playbackRate, video, fullscreenElement,
                   fullscreenApi, metadataPending>>

\* handleLoadedMetadata: the metadata-ready notification
handleLoadedMetadata ==
    /\ metadataPending
    /\ metadataPending' = FALSE
    /\ duration' = IF VideoPresent THEN video.duration ELSE duration
    /\ Observe("loadedmetadata", NoArg, {})
    /\ UNCHANGED <<isPlaying, currentTime, volume, isMuted, isFullscreen,
                   videoFile, playbackRate, video, fullscreenElement,
                   fullscreenApi>>

\* handleSeek: the seek bar, a range control over [0, duration]
handleSeek(req) ==
    LET target == RangeValue(req, 0, duration) IN
    /\ IF VideoPresent
       THEN /\ video' = [video EXCEPT !.currentTime = target]
            /\ currentTime' = target
            /\ Observe("seek", <<req>>, {"currentTime"})
       ELSE /\ UNCHANGED <<video, currentTime>>
            /\ Observe("seek", <<req>>, {})
    /\ UNCHANGED <<isPlaying, duration, volume, isMuted, isFullscreen,
                   videoFile, playbackRate, fullscreenElement, fullscreenApi,
                   metadataPending>>

\* MutedForVolume with the defect of a volume handler that leaves isMuted alone
MutedForVolumeKept(vol) == isMuted

\* setIsMuted(vol === 0)
MutedForVolume(vol) == vol = 0

\* handleVolume: the volume slider, a range control over [0, 1]
handleVolume(req) ==
    LET vol == RangeValue(req, VolumeMin, VolumeMax) IN
    /\ IF VideoPresent
       THEN /\ video' = [video EXCEPT !.volume = vol]
            /\ Observe("setVolume", <<req>>, {"volume"})
       ELSE /\ UNCHANGED video
            /\ Observe("setVolume", <<req>>, {})
    /\ volume' = vol
    /\ isMuted' = MutedForVolume(vol)
    /\ UNCHANGED <<isPlaying, currentTime, duration, isFullscreen, videoFile,
                   playbackRate, fullscreenElement, fullscreenApi,
                   metadataPending>>

\* handleMute: the mute button
handleMute ==
    /\ IF VideoPresent
       THEN /\ video' = [video EXCEPT !.muted = ~isMuted]
            /\ isMuted' = ~isMuted
            /\ Observe("toggleMute", NoArg, {"muted"})
       ELSE /\ UNCHANGED <<video, isMuted>>
            /\ Observe("toggleMute", NoArg, {})
    /\ UNCHANGED <<isPlaying, currentTime, duration, volume, isFullscreen,
                   videoFile, playbackRate, fullscreenElement, fullscreenApi,
                   metadataPending>>

\* handleFullscreen: the fullscreen button
handleFullscreen ==
    /\ IF ~VideoPresent
       THEN /\ UNCHANGED <<isFullscreen, fullscreenElement>>
            /\ Observe("toggleFullscreen", NoArg, {})
       ELSE IF ~isFullscreen
       THEN /\ fullscreenElement' = IF fullscreenApi THEN TRUE ELSE fullscreenElement
            /\ isFullscreen' = TRUE
            /\ Observe("toggleFullscreen", NoArg,
                       IF fullscreenApi THEN {"requestFullscreen"} ELSE {})
       ELSE /\ fullscreenElement' = IF fullscreenApi THEN FALSE ELSE fullscreenElement
            /\ isFullscreen' = FALSE
            /\ Observe("toggleFullscreen", NoArg,
                       IF fullscreenApi THEN {"exitFullscreen"} ELSE {})
    /\ UNCHANGED <<isPlaying, currentTime, duration, volume, isMuted,
                   videoFile, playbackRate, video, fullscreenApi,
                   metadataPending>>

\* handleFileChange: the file input; the re-render hands the new src to the
\* video element, which loads it
handleFileChange(file) ==
    /\ FileInputRendered
    /\ IF file # NoFile
       THEN /\ videoFile' = file
            /\ currentTime' = 0
            /\ isPlaying' = FALSE
            /\ video' = NativeLoad(video)
            /\ metadataPending' = FALSE
       ELSE UNCHANGED <<videoFile, currentTime, isPlaying, video, metadataPending>>
    /\ Observe("loadMedia", <<file>>, {})
    /\ UNCHANGED <<duration, volume, isMuted, isFullscreen, playbackRate,
                   fullscreenElement, fullscreenApi>>

\* JumpAllowed with the defect of a guard that forgets the duration
JumpAllowedVideoOnly == VideoPresent

\* if (!video || !duration) return
JumpAllowed == VideoPresent /\ duration # 0

\* JumpTarget with the defect of a missing lower clamp
JumpTargetNoFloor(position, dur, percent) ==
    LET newTime == position + (dur * percent) \div 100
    IN  IF newTime > dur THEN dur ELSE newTime

\* JumpTarget with the defect of a missing upper clamp
JumpTargetNoCeiling(position, dur, percent) ==
    LET newTime == position + (dur * percent) \div 100
    IN  IF newTime < 0 THEN 0 ELSE newTime

\* newTime of handleSpeedPercent: the native position plus percent of the
\* duration, kept inside [0, duration]
JumpTarget(position, dur, percent) ==
    LET jump == (dur * percent) \div 100
        newTime == position + jump
    IN  IF newTime < 0 THEN 0 ELSE IF newTime > dur THEN dur ELSE newTime

\* handleSpeedPercent: the jump-by-percent buttons and the manual form
handleSpeedPercent(percent) ==
    /\ IF JumpAllowed
       THEN LET newTime == JumpTarget(video.currentTime, duration, percent) IN
            /\ video' = [video EXCEPT !.currentTime = newTime]
            /\ currentTime' = newTime
            /\ Observe("jumpByPercent", <<percent>>, {"currentTime"})
       ELSE /\ UNCHANGED <<video, currentTime>>
            /\ Observe("jumpByPercent", <<percent>>, {})
    /\ UNCHANGED <<isPlaying, duration, volume, isMuted, isFullscreen,
                   videoFile, playbackRate, fullscreenElement, fullscreenApi,
                   metadataPending>>

\* the six quick-jump buttons
ClickJumpButton == \E p \in QuickPercents, back \in BOOLEAN :
    handleSpeedPercent(IF back THEN -p ELSE p)

\* parseFloat(input.value) of the manual form
ParseFloat(text) ==
    CASE text = "0" -> [isNaN |-> FALSE, value |-> 0]
      [] text = "-100" -> [isNaN |-> FALSE, value |-> -100]
      [] text = "100" -> [isNaN |-> FALSE, value |-> 100]
      [] OTHER -> [isNaN |-> TRUE, value |-> 0]

\* the manual form: NaN and 0 are dropped
SubmitPercentForm(text) ==
    LET val == ParseFloat(text) IN
    IF ~val.isNaN /\ val.value # 0
    THEN handleSpeedPercent(val.value)
    ELSE /\ Observe("percentForm", <<text>>, {})
         /\ UNCHANGED <<isPlaying, currentTime, duration, volume, isMuted,
                        isFullscreen, videoFile, playbackRate, video,
                        fullscreenElement, fullscreenApi, metadataPending>>

\* handlePlaybackRate, and the effect that runs when playbackRate changes
handlePlaybackRate(rate, op, req) ==
    /\ playbackRate' = rate
    /\ IF VideoPresent
       THEN /\ video' = [video EXCEPT !.playbackRate = rate]
            /\ Observe(op, req, {"playbackRate"})
       ELSE /\ UNCHANGED video
            /\ Observe(op, req, {})
    /\ UNCHANGED <<isPlaying, currentTime, duration, volume, isMuted,
                   isFullscreen, videoFile, fullscreenElement, fullscreenApi,
                   metadataPending>>

\* the speed slider, a range control over [0.25, 2]
ChangeSpeedSlider(req) ==
    handlePlaybackRate(RangeValue(req, RateMin, RateMax), "setPlaybackRate", <<req>>)

\* the Reset button: handlePlaybackRate({target: {value: '1'}})
ClickResetSpeed == handlePlaybackRate(ResetRate, "resetPlaybackRate", NoArg)

----------------------------------------------------------------------------
\* Steps of the native primitive that no handler observes

\* the metadata of the loaded resource arrives: the duration becomes known
\* and a loadedmetadata notification is queued
NativeMetadataReady ==
    /\ videoFile # NoFile
    /\ video.duration = 0
    /\ \E d \in Durations : video' = [video EXCEPT !.duration = d]
    /\ metadataPending' = TRUE
    /\ Observe("native", NoArg, {})
    /\ UNCHANGED <<session, fullscreenElement, fullscreenApi>>

\* playback advances by one time unit
NativeProgress ==
    /\ ~video.paused
    /\ video.duration # 0
    /\ video.currentTime < video.duration
    /\ video' = [video EXCEPT !.currentTime = @ + 1]
    /\ Observe("native", NoArg, {})
    /\ UNCHANGED <<session, fullscreenElement, fullscreenApi, metadataPending>>

\* playback has reached the end: a browser may pause the element itself
\* (the ended notification is not bound to any handler)
NativeEnded ==
    /\ ~video.paused
    /\ AtEnd(video)
    /\ video' = NativePause(video)
    /\ Observe("native", NoArg, {})
    /\ UNCHANGED <<session, fullscreenElement, fullscreenApi, metadataPending>>

----------------------------------------------------------------------------
\* the handlers of the controls that act on volume, mute, speed and
\* fullscreen
NextControls ==
    \/ \E req \in VolumeRequests : handleVolume(req)
    \/ handleMute
    \/ \E req \in RateRequests : ChangeSpeedSlider(req)
    \/ ClickResetSpeed
    \/ handleFullscreen

\* the handlers and native steps that act on the media, on playing and on
\* the position
NextPlayback ==
    \/ \E file \in Files \cup {NoFile} : handleFileChange(file)
    \/ NativeMetadataReady
    \/ handleLoadedMetadata
    \/ handlePlayPause
    \/ NativeProgress
    \/ NativeEnded
    \/ handleTimeUpdate
    \/ \E req \in SeekRequests : handleSeek(req)
    \/ ClickJumpButton
    \/ \E text \in ManualEntries : SubmitPercentForm(text)

\* every control the user can work before a file is chosen (a file dialog
\* that is opened is cancelled)
NextNoMedia ==
    \/ NextControls
    \/ handlePlayPause
    \/ \E req \in SeekRequests : handleSeek(req)
    \/ ClickJumpButton
    \/ \E text \in ManualEntries : SubmitPercentForm(text)
    \/ handleFileChange(NoFile)

Next == NextPlayback \/ NextControls

\* every handler and every native step, interleaved at will
Spec == Init /\ [][Next]_vars

\* The handlers of NextControls read and write volume, isMuted,
\* playbackRate, isFullscreen, fullscreenElement and the volume, muted and
\* playbackRate properties of the video; those of NextPlayback read and write
\* the rest.  The state space of Spec is the product of the two, so the
\* properties are checked on two parts of it: the component before a file is
\* chosen, with every control in use, and the component from the choice of a
\* file on, with the controls of NextControls left alone.
SpecNoMedia == Init /\ [][NextNoMedia]_vars
SpecPlayback == Init /\ [][NextPlayback]_vars

----------------------------------------------------------------------------
\* Properties

TransportOps == {"togglePlayPause", "seek", "jumpByPercent", "setVolume",
                 "toggleMute", "toggleFullscreen", "setPlaybackRate"}

Clamp(x, lo, hi) == IF x < lo THEN lo ELSE IF x > hi THEN hi ELSE x

\* every mirrored session field equals the native primitive's property
Mirrored ==
    /\ isPlaying = ~video.paused
    /\ currentTime = video.currentTime
    /\ volume = video.volume
    /\ isMuted = video.muted
    /\ playbackRate = video.playbackRate
    /\ isFullscreen = fullscreenElement

\* C1: after any transport operation every mirrored session field equals the
\* native primitive's corresponding property.
C1_SessionMirrorsNative == lastOp \in TransportOps => Mirrored

\* C2: with a known duration, jumpByPercent(percent) leaves the session
\* currentTime and the native position at
\* clamp(native position before + duration * percent / 100, 0, duration).
C2_JumpByPercent ==
    [][(lastOp' = "jumpByPercent" /\ duration # 0) =>
         LET percent == arg'[1]
             expected == Clamp(video.currentTime + (duration * percent) \div 100,
                               0, duration)
         IN  /\ percent \in -100..100 /\ percent # 0
             /\ currentTime' = expected
             /\ video'.currentTime = expected]_vars

\* a jump forward by 15 percent of a duration of 20, from position 7 to 10
C2_Witness ==
    /\ lastOp = "jumpByPercent"
    /\ arg = <<15>>
    /\ duration = 20
    /\ currentTime = 10
    /\ video.currentTime = 10

\* C3: once the duration is known, 0 <= currentTime <= duration in every
\* reachable state.
C3_CurrentTimeInRange == duration # 0 => (0 <= currentTime /\ currentTime <= duration)

\* the position has been driven to the very end of the media by a jump
C3_Witness ==
    /\ duration # 0
    /\ currentTime = duration
    /\ lastOp = "jumpByPercent"
    /\ arg = <<100>>

\* C4: every transport operation invoked while no media is loaded changes no
\* session field and issues no command to the native primitive.
C4_NoMediaNoOp ==
    [][(videoFile = NoFile /\ lastOp' \in TransportOps) =>
         (UNCHANGED <<session, native>> /\ cmds' = {})]_vars

\* C4 as amended: jumpByPercent invoked while no media is loaded changes no
\* session field, changes nothing of the native primitive and issues no
\* command to it.
C4_JumpNoMediaNoOp ==
    [][(videoFile = NoFile /\ lastOp' = "jumpByPercent") =>
         (UNCHANGED <<session, native>> /\ cmds' = {})]_vars

\* a jump was asked for while no media was loaded, after the user had
\* already pressed play
C4_Witness ==
    /\ lastOp = "jumpByPercent"
    /\ videoFile = NoFile
    /\ isPlaying

\* C5: playbackRate always lies in [0.25, 2.0]; a request outside the range
\* stores the nearest bound in the session state and in the native rate; the
\* reset sets both to 1.0.
C5_PlaybackRateClamped ==
    [][/\ playbackRate \in 25..200
       /\ playbackRate' \in 25..200
       /\ lastOp' = "setPlaybackRate" =>
            LET r == arg'[1] IN
            /\ r < 25 => (playbackRate' = 25 /\ video'.playbackRate = 25)
            /\ r > 200 => (playbackRate' = 200 /\ video'.playbackRate = 200)
            /\ r \in 25..200 => (playbackRate' = r /\ video'.playbackRate = r)
       /\ lastOp' = "resetPlaybackRate" =>
            (playbackRate' = 100 /\ video'.playbackRate = 100)]_vars

\* a request for 3.0 has been stored as 2.0
C5_Witness ==
    /\ lastOp = "setPlaybackRate"
    /\ arg = <<300>>
    /\ playbackRate = 200
    /\ video.playbackRate = 200

\* C6: for every v in [0, 1], setVolume(v) leaves volume = v and
\* isMuted = (v = 0), whatever volume and isMuted were.
C6_SetVolume ==
    [][(lastOp' = "setVolume" /\ arg'[1] \in 0..100) =>
         (volume' = arg'[1] /\ isMuted' = (arg'[1] = 0))]_vars

\* a non-zero volume was set after a toggleMute had muted the primitive
C6_Witness ==
    /\ lastOp = "setVolume"
    /\ arg = <<50>>
    /\ volume = 50
    /\ ~isMuted
    /\ video.muted

\* C7: a single toggleMute flips isMuted and the native muted flag and leaves
\* volume alone; a second one right after it restores the original isMuted,
\* the original native muted flag and the volume.
C7_ToggleMute ==
    [][lastOp' = "toggleMute" =>
         /\ isMuted' = ~isMuted
         /\ video'.muted = ~video.muted
         /\ volume' = volume
         /\ video'.volume = video.volume
         /\ lastOp = "toggleMute" =>
              /\ isMuted' = muteBefore[1]
              /\ video'.muted = muteBefore[2]
              /\ volume' = muteBefore[3]]_vars

LoadFile == \E file \in Files : handleFileChange(file)

\* C8: loading a media reference replaces mediaSource and resets currentTime
\* to 0 and isPlaying to false, and the operation is available in a state
\* where media is already loaded.
C8_LoadWhileLoaded ==
    /\ videoFile # NoFile => ENABLED LoadFile
    /\ (lastOp = "loadMedia" /\ arg # <<NoFile>>) =>
         (videoFile = arg[1] /\ currentTime = 0 /\ ~isPlaying)

\* C8 as amended: loading a media reference sets mediaSource and resets
\* currentTime to 0 and isPlaying to false (and the native primitive to
\* paused at position 0), whatever they were; it happens only while no media
\* is loaded.
C8_LoadResets ==
    [][(lastOp' = "loadMedia" /\ arg' # <<NoFile>>) =>
         /\ videoFile = NoFile
         /\ videoFile' = arg'[1]
         /\ currentTime' = 0
         /\ ~isPlaying'
         /\ video'.paused
         /\ video'.currentTime = 0]_vars

\* a file has been loaded
C8_Witness ==
    /\ lastOp = "loadMedia"
    /\ videoFile \in Files
    /\ currentTime = 0
    /\ ~isPlaying

\* C9: without the fullscreen capability toggleFullscreen changes nothing;
\* with it, isFullscreen flips and the matching request or exit is issued.
C9_FullscreenToggle ==
    [][lastOp' = "toggleFullscreen" =>
         IF ~fullscreenApi
         THEN UNCHANGED <<session, native>> /\ cmds' = {}
         ELSE /\ isFullscreen' = ~isFullscreen
              /\ cmds' = IF isFullscreen THEN {"exitFullscreen"}
                         ELSE {"requestFullscreen"}]_vars

\* C10: from the native side only the progress notification (currentTime)
\* and the metadata-ready notification (duration) change the session state,
\* and isPlaying, once true, stays true until togglePlayPause or loadMedia.
C10_NativeSideMutations ==
    [][/\ lastOp' = "native" => UNCHANGED session
       /\ lastOp' = "timeupdate" =>
            /\ currentTime' = video.currentTime
            /\ UNCHANGED <<isPlaying, duration, volume, isMuted, isFullscreen,
                           videoFile, playbackRate>>
       /\ lastOp' = "loadedmetadata" =>
            /\ duration' = video.duration
            /\ UNCHANGED <<isPlaying, currentTime, volume, isMuted,
                           isFullscreen, videoFile, playbackRate>>
       /\ (isPlaying /\ lastOp' \notin {"togglePlayPause", "loadMedia"}) =>
            isPlaying']_vars

\* playback has reached the end, the primitive has paused itself, the last
\* progress notification has been handled, and isPlaying is still true
C10_Witness ==
    /\ isPlaying
    /\ AtEnd(video)
    /\ video.paused
    /\ currentTime = duration
    /\ lastOp = "timeupdate"

====
